---------------------------- MODULE Spec2Model ----------------------------
(***************************************************************************)
(* Gait-cycle segmentation and feature aggregation of                      *)
(* src/feature_extraction.py.                                              *)
(*                                                                         *)
(* Encoding of Python values                                               *)
(*  - a list whose items are numbers is [kind |-> "ints", val |-> seq],    *)
(*    a list whose items are lists is [kind |-> "lists", val |-> seq];     *)
(*    the empty list is [kind |-> "lists", val |-> <<>>].  Only the        *)
(*    result of draw_rectangle needs the tag: it is the one list whose     *)
(*    item type depends on the input.                                      *)
(*  - a float computed by / is an exact fraction [num, den] in lowest      *)
(*    terms (rounding of IEEE doubles is not modelled).                    *)
(*  - a call that raises returns [error |-> <exception name>], a call      *)
(*    that returns v returns [error |-> "none", value |-> v].              *)
(*  - a standard deviation is represented by its square (sqrt is monotone  *)
(*    and sqrt(0) = 0, so "sd = 0" is "variance = 0").                     *)
(*  - math.atan is not representable: the third output of                  *)
(*    calc_spatial_component (mean_angle) is left out of its value; the    *)
(*    faults its computation can raise are those of the aspect ratio.      *)
(***************************************************************************)
EXTENDS Integers, Sequences, FiniteSets, TLC

VARIABLES
    pc,                 \* position of the script
    cap_pos,            \* frames the VideoCapture has delivered so far
    reading,            \* the frame returned by the last cap.read()
    stride_dist,        \* calc_stride_dist(reading) of the last frame
    step_count, coefficients, coeff_temp, gait_sizes, cycle_sizes,
    step_lengths, frame_count, n_size, gap_legs,   \* locals of calc_gait_cycle
    spatial,            \* result of calc_spatial_component (line 271)
    temporal,           \* result of calc_temporal_component (line 278)
    wavelet_component   \* result of calc_wavelet_component (line 285)

vars == <<pc, cap_pos, reading, stride_dist, step_count, coefficients,
          coeff_temp, gait_sizes, cycle_sizes, step_lengths, frame_count,
          n_size, gap_legs, spatial, temporal, wavelet_component>>

----------------------------------------------------------------------------
(* Bounds of the model *)

\* longest clip the frame source delivers
MaxFrames == 7
\* most boxes the silhouette measurer returns for one masked image
MaxBoxes == 3
\* largest distance between two box centres that is looked for
MaxDist == 400

(* Program constants *)

\* stride_dist > 40, line 122
Threshold == 40
\* len(gap_legs) > 2, line 122
WarmUp == 2
\* distance = 1, line 76
Sentinel == 1
\* cv2.CAP_PROP_FPS, the property identifier used as frame rate on line 196
CAP_PROP_FPS == 5

----------------------------------------------------------------------------
(* Exact fractions for Python's true division *)

Abs(x) == IF x < 0 THEN -x ELSE x

RECURSIVE GCD(_, _)
GCD(a, b) == IF b = 0 THEN a ELSE GCD(b, a % b)

Frac(n, d) ==
    LET g == GCD(Abs(n), Abs(d))
        s == IF d < 0 THEN -1 ELSE 1
    IN  [num |-> (s * n) \div g, den |-> (s * d) \div g]

FInt(n) == [num |-> n, den |-> 1]
FAdd(a, b) == Frac(a.num * b.den + b.num * a.den, a.den * b.den)
FSub(a, b) == Frac(a.num * b.den - b.num * a.den, a.den * b.den)
FMul(a, b) == Frac(a.num * b.num, a.den * b.den)
FDivInt(a, n) == Frac(a.num, a.den * n)

RECURSIVE SeqSum(_)
SeqSum(s) == IF s = <<>> THEN 0 ELSE Head(s) + SeqSum(Tail(s))

RECURSIVE FracSum(_)
FracSum(s) == IF s = <<>> THEN FInt(0) ELSE FAdd(Head(s), FracSum(Tail(s)))

RECURSIVE SeqMax(_)
SeqMax(s) == IF Len(s) = 1 THEN s[1]
             ELSE LET m == SeqMax(Tail(s)) IN IF s[1] > m THEN s[1] ELSE m

Return(v) == [error |-> "none", value |-> v]
Raise(e) == [error |-> e, value |-> <<>>]
NotRun == [error |-> "not run", value |-> <<>>]

----------------------------------------------------------------------------
(* The collaborators' outputs for one frame.                               *)
(* A frame is [feet, body, dwt]: feet is what cv2.boundingRect gives for   *)
(* the contours of the masked image (rows 190..240), body what it gives    *)
(* for the contours of the whole frame, each a sequence of [x, y, w, h]    *)
(* in contour order; dwt is pywt.dwt2's result <<c_a, <<c_h, c_v, c_d>>>>, *)
(* each band a matrix (a sequence of rows).                                *)

Box(x, y, w, h) == [x |-> x, y |-> y, w |-> w, h |-> h]

\* two wavelet decompositions with the same approximation and vertical
\* sums and different horizontal sums
DwtA == << <<<<3, 7>>>>, << <<<<1, -3>>>>, <<<<2, 1>>>>, <<<<0, 0>>>> >> >>
DwtB == << <<<<6, 4>>>>, << <<<<4, 1>>>>, <<<<3, 0>>>>, <<<<1, 1>>>> >> >>

\* feet together: one blob in the masked image
FrameTogether ==
    [feet |-> <<Box(20, 200, 12, 30)>>,
     body |-> <<Box(18, 40, 4, 10)>>, dwt |-> DwtB]
\* feet apart, centres (11,193) and (41,233): 50 apart
FrameApart50 ==
    [feet |-> <<Box(10, 192, 2, 2), Box(40, 232, 2, 2)>>,
     body |-> <<Box(10, 40, 6, 10)>>, dwt |-> DwtA]
\* feet apart, centres (12,201) and (72,201): 60 apart
FrameApart60 ==
    [feet |-> <<Box(10, 200, 4, 2), Box(71, 200, 2, 2)>>,
     body |-> <<Box(10, 40, 8, 12)>>, dwt |-> DwtA]
\* nothing in the masked image, two blobs in the whole frame
FrameNoise ==
    [feet |-> <<>>,
     body |-> <<Box(10, 40, 3, 5), Box(50, 40, 3, 5)>>, dwt |-> DwtB]

Frames == {FrameTogether, FrameApart50, FrameApart60, FrameNoise}

----------------------------------------------------------------------------
(* draw_rectangle, lines 39-49: the loop over the contours.  With more     *)
(* than one contour every [w, h, x, y] is appended; with exactly one,      *)
(* size_rect is rebound to the flat [w, h, x, y]; with none it stays [].   *)

RectOf(b) == <<b.w, b.h, b.x, b.y>>

draw_rectangle_off_by_one(cont) ==
    IF Len(cont) > 2
    THEN [kind |-> "lists", val |-> [k \in 1..Len(cont) |-> RectOf(cont[k])]]
    ELSE IF Len(cont) >= 1
    THEN [kind |-> "ints", val |-> RectOf(cont[Len(cont)])]
    ELSE [kind |-> "lists", val |-> <<>>]

draw_rectangle(cont) ==
    IF Len(cont) > 1
    THEN [kind |-> "lists", val |-> [k \in 1..Len(cont) |-> RectOf(cont[k])]]
    ELSE IF Len(cont) = 1
    THEN [kind |-> "ints", val |-> RectOf(cont[1])]
    ELSE [kind |-> "lists", val |-> <<>>]

PyLen(list) == Len(list.val)

(* scipy's dist.euclidean(cent2, cent1) with cent = (x + w/2, y + h/2):    *)
(* the d with d*d = dx*dx + dy*dy, computed on the doubled coordinates     *)
(* 2*x + w so that the halves stay integers.  The frames enumerated here   *)
(* have centres at integer distances.                                      *)
euclidean(r2, r1) ==
    LET dx2 == (2 * r2[3] + r2[1]) - (2 * r1[3] + r1[1])
        dy2 == (2 * r2[4] + r2[2]) - (2 * r1[4] + r1[2])
    IN  CHOOSE d \in 0..MaxDist : 4 * d * d = dx2 * dx2 + dy2 * dy2

(* calc_stride_dist, lines 66-79, on the boxes of the masked image *)
calc_stride_dist(image) ==
    LET rect_size == draw_rectangle(image.feet)
    IN  IF PyLen(rect_size) = 2
        THEN euclidean(rect_size.val[2], rect_size.val[1])
        ELSE Sentinel

----------------------------------------------------------------------------
(* calc_gait_cycle, lines 93-135 *)

Locals ==
    [step_count |-> step_count, coefficients |-> coefficients,
     coeff_temp |-> coeff_temp, gait_sizes |-> gait_sizes,
     cycle_sizes |-> cycle_sizes, step_lengths |-> step_lengths,
     frame_count |-> frame_count, n_size |-> n_size, gap_legs |-> gap_legs,
     stride_dist |-> stride_dist]

(* lines 110-119: count the frame, buffer its wavelet coefficients and its *)
(* rectangles, measure the stride *)
Measure(s, image) ==
    [s EXCEPT !.frame_count = @ + 1,
              !.coeff_temp = Append(@, <<image.dwt[1], image.dwt[2][1],
                                         image.dwt[2][2], image.dwt[2][3]>>),
              !.stride_dist = calc_stride_dist(image),
              !.cycle_sizes = Append(@, draw_rectangle(image.body))]

(* line 122: the boundary test *)
BoundaryTestOnPrevious(legs, dist) ==
    (Len(legs) > WarmUp /\ dist < legs[Len(legs)]) /\ legs[Len(legs)] > Threshold

BoundaryTestShortWarmUp(legs, dist) ==
    (Len(legs) > WarmUp - 1 /\ dist < legs[Len(legs)]) /\ dist > Threshold

BoundaryTest(legs, dist) ==
    (Len(legs) > WarmUp /\ dist < legs[Len(legs)]) /\ dist > Threshold

(* lines 123-126: list.append of the buffer to a completed collection *)
SealCycleInsertFirst(collection, buffer) == <<buffer>> \o collection

SealCycle(collection, buffer) == Append(collection, buffer)

(* lines 122-133: seal on a boundary, then append the stride distance.     *)
(* The buffers are rebound to fresh lists (lines 127-130), so the sealed   *)
(* lists are not aliased by the new buffers.                               *)
SegmentResetCount(m) ==
    IF BoundaryTest(m.gap_legs, m.stride_dist)
    THEN [m EXCEPT !.gait_sizes = SealCycle(@, m.cycle_sizes),
                   !.n_size = SealCycle(@, m.frame_count),
                   !.step_lengths = SealCycle(@, m.gap_legs),
                   !.coefficients = SealCycle(@, m.coeff_temp),
                   !.coeff_temp = <<>>,
                   !.gap_legs = <<m.stride_dist>>,
                   !.step_count = @ + 1,
                   !.frame_count = 0,
                   !.cycle_sizes = <<>>]
    ELSE [m EXCEPT !.gap_legs = Append(@, m.stride_dist)]

Segment(m) ==
    IF BoundaryTest(m.gap_legs, m.stride_dist)
    THEN [m EXCEPT !.gait_sizes = SealCycle(@, m.cycle_sizes),
                   !.n_size = SealCycle(@, m.frame_count),
                   !.step_lengths = SealCycle(@, m.gap_legs),
                   !.coefficients = SealCycle(@, m.coeff_temp),
                   !.coeff_temp = <<>>,
                   !.gap_legs = <<m.stride_dist>>,
                   !.step_count = @ + 1,
                   !.cycle_sizes = <<>>]
    ELSE [m EXCEPT !.gap_legs = Append(@, m.stride_dist)]

(* one iteration of the while loop with ret true, lines 105-133 *)
LoopBody(image) ==
    /\ pc = "segmenting"
    /\ LET s == Segment(Measure(Locals, image))
       IN  /\ step_count' = s.step_count
           /\ coefficients' = s.coefficients
           /\ coeff_temp' = s.coeff_temp
           /\ gait_sizes' = s.gait_sizes
           /\ cycle_sizes' = s.cycle_sizes
           /\ step_lengths' = s.step_lengths
           /\ frame_count' = s.frame_count
           /\ n_size' = s.n_size
           /\ gap_legs' = s.gap_legs
           /\ stride_dist' = s.stride_dist
    /\ reading' = image
    /\ cap_pos' = cap_pos + 1
    /\ UNCHANGED <<pc, spatial, temporal, wavelet_component>>

(* cap.read() delivers a frame *)
ReadFrame ==
    /\ cap_pos < MaxFrames
    /\ \E image \in Frames : LoopBody(image)

(* cap.read() returns ret = False: break, return, lines 107-108 and 135 *)
EndOfStream ==
    /\ pc = "segmenting"
    /\ pc' = "spatial"
    /\ UNCHANGED <<cap_pos, reading, stride_dist, step_count, coefficients,
                   coeff_temp, gait_sizes, cycle_sizes, step_lengths,
                   frame_count, n_size, gap_legs, spatial, temporal,
                   wavelet_component>>

NoFrame == [feet |-> <<>>, body |-> <<>>, dwt |-> <<>>]

(* lines 93-101, before the first read *)
InitLocals ==
    /\ step_count = 0
    /\ coefficients = <<>>
    /\ coeff_temp = <<>>
    /\ gait_sizes = <<>>
    /\ cycle_sizes = <<>>
    /\ step_lengths = <<>>
    /\ frame_count = 0
    /\ n_size = <<>>
    /\ gap_legs = <<>>
    /\ spatial = NotRun
    /\ temporal = NotRun
    /\ wavelet_component = NotRun

Init ==
    /\ pc = "segmenting"
    /\ cap_pos = 0
    /\ reading = NoFrame
    /\ stride_dist = 0
    /\ InitLocals

----------------------------------------------------------------------------
(* calc_spatial_component, lines 152-171 *)

(* What the four comprehensions of lines 159-162 raise on one cycle:       *)
(* element[0] of an empty list is an IndexError (raised while the list     *)
(* comprehension is built), sum() over lists is a TypeError, and           *)
(* element[1]/element[0] with element[0] = 0 is a ZeroDivisionError.       *)
CycleFault(cycle) ==
    IF \E k \in 1..Len(cycle) : PyLen(cycle[k]) = 0 THEN "IndexError"
    ELSE IF \E k \in 1..Len(cycle) : cycle[k].kind = "lists" THEN "TypeError"
    ELSE IF \E k \in 1..Len(cycle) : cycle[k].val[1] = 0 THEN "ZeroDivisionError"
    ELSE "none"

\* sum([element[j] for element in cycle]) / frames, lines 159-160
CycleMean(cycle, j, frames) ==
    Frac(SeqSum([k \in 1..Len(cycle) |-> cycle[k].val[j]]), frames)

\* sum([element[1]/element[0] for element in cycle]) / frames, line 162
CycleAspect(cycle, frames) ==
    FDivInt(FracSum([k \in 1..Len(cycle) |->
                        Frac(cycle[k].val[2], cycle[k].val[1])]), frames)

calc_spatial_component(count, rect_sizes, num_frames) ==
    LET bad == {i \in 1..count : CycleFault(rect_sizes[i]) # "none"}
        first == CHOOSE i \in bad : \A j \in bad : i <= j
        Scale(total) == FDivInt(FMul(total, FInt(2)), count)
    IN  IF bad # {} THEN Raise(CycleFault(rect_sizes[first]))
        ELSE IF count = 0 THEN Raise("ZeroDivisionError")
        ELSE Return(
          [mean_height |-> Scale(FracSum([i \in 1..count |->
                              CycleMean(rect_sizes[i], 1, num_frames[i])])),
           mean_width |-> Scale(FracSum([i \in 1..count |->
                              CycleMean(rect_sizes[i], 2, num_frames[i])])),
           mean_ar |-> Scale(FracSum([i \in 1..count |->
                              CycleAspect(rect_sizes[i], num_frames[i])]))])

(* calc_temporal_component, lines 188-204 *)
calc_temporal_component(lengths) ==
    LET n == Len(lengths)
        step_sum == SeqSum([i \in 1..n |-> SeqMax(lengths[i])])
        cad_sum == FracSum([i \in 1..n |->
                              FMul(Frac(1, Len(lengths[i])), FInt(CAP_PROP_FPS))])
    IN  IF n = 0 THEN Raise("ZeroDivisionError")
        ELSE LET mean_cadence == FDivInt(cad_sum, n)
                 step_len == Frac(step_sum, n)
                 stride_len == FMul(FInt(2), step_len)
             IN  Return([step_len |-> step_len,
                         stride_len |-> stride_len,
                         mean_cadence |-> mean_cadence,
                         speed |-> FMul(FMul(stride_len, Frac(1, 2)),
                                        mean_cadence)])

(* np.sum(matrix, axis=None) *)
MatSum(matrix) == SeqSum([r \in 1..Len(matrix) |-> SeqSum(matrix[r])])

(* calc_stand_deviation, lines 217-221; the value is the square of sd:     *)
(* constant^2 * sum_squares = sum((ele - mean)^2) / (frames - 1)           *)
calc_stand_deviation(coefficient_list, frames, mean) ==
    IF frames = 1 THEN Raise("ZeroDivisionError")
    ELSE LET list_sum == [k \in 1..Len(coefficient_list) |->
                            LET dev == FSub(FInt(coefficient_list[k]), mean)
                            IN  FMul(dev, dev)]
         IN  Return(FDivInt(FracSum(list_sum), frames - 1))

(* lines 239-253 for one band of one cycle *)
BandFeature(cycle, band, frames) ==
    LET coefficient == [k \in 1..Len(cycle) |-> MatSum(cycle[k][band])]
        mean == Frac(SeqSum(coefficient), frames)
    IN  [mean |-> mean,
         stand |-> calc_stand_deviation(coefficient, frames, mean)]

(* calc_wavelet_component, lines 234-257 *)
calc_wavelet_component(haar_coeff, noof_frames) ==
    LET feature == [index \in 1..Len(haar_coeff) |->
                      [band \in 1..3 |->
                          BandFeature(haar_coeff[index], band, noof_frames[index])]]
        failed == \E index \in 1..Len(haar_coeff) : \E band \in 1..3 :
                      feature[index][band].stand.error # "none"
    IN  IF failed THEN Raise("ZeroDivisionError")
        ELSE Return([index \in 1..Len(haar_coeff) |->
                       [band \in 1..3 |->
                          [mean |-> feature[index][band].mean,
                           stand_sq |-> feature[index][band].stand.value]]])

----------------------------------------------------------------------------
(* The script, lines 264-290: the three aggregators run in order after     *)
(* calc_gait_cycle returns; an exception ends the script.                  *)

After(result, next) == IF result.error = "none" THEN next ELSE "crashed"

SegmenterUnchanged ==
    UNCHANGED <<cap_pos, reading, stride_dist, step_count, coefficients,
                coeff_temp, gait_sizes, cycle_sizes, step_lengths,
                frame_count, n_size, gap_legs>>

\* line 271
Spatial ==
    /\ pc = "spatial"
    /\ spatial' = calc_spatial_component(step_count, gait_sizes, n_size)
    /\ pc' = After(spatial', "temporal")
    /\ UNCHANGED <<temporal, wavelet_component>>
    /\ SegmenterUnchanged

\* line 278
Temporal ==
    /\ pc = "temporal"
    /\ temporal' = calc_temporal_component(step_lengths)
    /\ pc' = After(temporal', "wavelet")
    /\ UNCHANGED <<spatial, wavelet_component>>
    /\ SegmenterUnchanged

\* line 285
Wavelet ==
    /\ pc = "wavelet"
    /\ wavelet_component' = calc_wavelet_component(coefficients, n_size)
    /\ pc' = After(wavelet_component', "done")
    /\ UNCHANGED <<spatial, temporal>>
    /\ SegmenterUnchanged

Next == ReadFrame \/ EndOfStream \/ Spatial \/ Temporal \/ Wavelet

Spec == Init /\ [][Next]_vars

----------------------------------------------------------------------------
(* calc_gait_cycle on the ten-frame clip whose feet are 5, 10, 20, 35, 50, *)
(* 30, 10, 5, 8, 12 apart; the silhouette and the wavelet coefficients of  *)
(* each frame are free.                                                    *)

ScenarioDistances == <<5, 10, 20, 35, 50, 30, 10, 5, 8, 12>>

ScenarioLooks == {FrameTogether, FrameApart60}

\* two feet whose centres (1,201) and (d+1,201) are d apart
ScenarioFrame(d, look) ==
    [feet |-> <<Box(0, 200, 2, 2), Box(d, 200, 2, 2)>>,
     body |-> look.body, dwt |-> look.dwt]

ScenarioRead ==
    /\ cap_pos < Len(ScenarioDistances)
    /\ \E look \in ScenarioLooks :
          LoopBody(ScenarioFrame(ScenarioDistances[cap_pos + 1], look))

ScenarioEnd ==
    /\ cap_pos = Len(ScenarioDistances)
    /\ EndOfStream

NextScenario == ScenarioRead \/ ScenarioEnd

SpecScenario == Init /\ [][NextScenario]_vars

----------------------------------------------------------------------------
(* calc_stride_dist applied to every sequence of at most MaxBoxes boxes    *)
(* with centres (11,193), (41,233), (71,193) and (41,193).                 *)

StrideBoxes == {Box(10, 192, 2, 2), Box(40, 232, 2, 2),
                Box(70, 192, 2, 2), Box(40, 192, 2, 2)}

BoxSeqs == UNION {[1..k -> StrideBoxes] : k \in 0..MaxBoxes}

InitStride ==
    /\ pc = "stride"
    /\ cap_pos = 0
    /\ reading \in {[feet |-> b, body |-> <<>>, dwt |-> <<>>] : b \in BoxSeqs}
    /\ stride_dist = 0
    /\ InitLocals

Stride ==
    /\ pc = "stride"
    /\ stride_dist' = calc_stride_dist(reading)
    /\ pc' = "strided"
    /\ UNCHANGED <<cap_pos, reading, step_count, coefficients, coeff_temp,
                   gait_sizes, cycle_sizes, step_lengths, frame_count,
                   n_size, gap_legs, spatial, temporal, wavelet_component>>

SpecStride == InitStride /\ [][Stride]_vars

----------------------------------------------------------------------------
(* Properties *)

Cycles == 1..Len(n_size)

Last(seq) == seq[Len(seq)]

RECURSIVE Flatten(_)
Flatten(seqs) == IF seqs = <<>> THEN <<>> ELSE Head(seqs) \o Flatten(Tail(seqs))

\* every stride distance measured so far, in frame order
AllDistances == Flatten(step_lengths) \o gap_legs

NothingSealed ==
    /\ step_count = 0
    /\ gait_sizes = <<>>
    /\ n_size = <<>>
    /\ step_lengths = <<>>
    /\ coefficients = <<>>

(* C1: for every sealed cycle i, the recorded frame count n_size[i] equals *)
(* the length of step_lengths[i], of gait_sizes[i] and of coefficients[i]. *)
C1_Lockstep ==
    \A i \in Cycles :
        /\ n_size[i] = Len(step_lengths[i])
        /\ n_size[i] = Len(gait_sizes[i])
        /\ n_size[i] = Len(coefficients[i])

(* C2: the sum of the frame counts recorded for the sealed cycles is at    *)
(* most the number of frames read from the source.                         *)
C2_SumWithinFramesRead == SeqSum(n_size) <= cap_pos

(* C3, as stated: when the scenario clip ends, exactly one cycle has been  *)
(* sealed, at frame index 5; it has 5 frames and the distances 5, 10, 20,  *)
(* 35, 50; the in-progress buffer starts with 30.                          *)
C3_OneBoundaryAtFive ==
    pc = "spatial" =>
        /\ step_count = 1
        /\ n_size = <<5>>
        /\ step_lengths = <<SubSeq(ScenarioDistances, 1, 5)>>
        /\ gap_legs[1] = 30

(* C3, amended: on the scenario clip no boundary is ever declared (30 is   *)
(* not greater than the threshold 40); nothing is sealed, and when the     *)
(* clip ends all ten distances are in the in-progress buffer.              *)
C3_NoBoundary ==
    /\ NothingSealed
    /\ gap_legs = SubSeq(ScenarioDistances, 1, cap_pos)
    /\ pc = "spatial" => gap_legs = ScenarioDistances

C3_ScenarioEnded == pc = "spatial" /\ cap_pos = 10 /\ Len(gap_legs) = 10

(* C4: no sealed cycle has a frame count below 3 or fewer than 3 stride    *)
(* samples; a stream whose stride distance never exceeds 40 has sealed     *)
(* nothing; and every sealing step happens on a frame whose stride         *)
(* distance is greater than 40 and less than the last buffered distance,   *)
(* with at least 3 distances buffered.                                     *)
C4_State ==
    /\ \A i \in Cycles :
          /\ n_size[i] >= 3
          /\ Len(step_lengths[i]) >= 3
          /\ Len(gait_sizes[i]) >= 3
    /\ (\A k \in 1..Len(AllDistances) : AllDistances[k] <= 40) => NothingSealed

C4_Seal ==
    step_count' # step_count =>
        /\ stride_dist' > 40
        /\ Len(gap_legs) >= 3
        /\ stride_dist' < Last(gap_legs)

\* C4: the warm-up and threshold conditions hold in every state and at
\* every sealing step
C4_WarmUpAndThreshold == [] C4_State /\ [][C4_Seal]_vars

C4_SealedAndQuiet ==
    /\ pc = "spatial"
    /\ step_count = 1
    /\ Len(step_lengths[1]) = 3
    /\ stride_dist = 1

(* C5: when segmentation ends with no cycle, none of the three             *)
(* aggregators fails with a division by zero, and the script does not      *)
(* crash.                                                                  *)
C5_NoCyclesHandled ==
    (pc # "segmenting" /\ step_count = 0) =>
        /\ calc_spatial_component(step_count, gait_sizes, n_size).error
              # "ZeroDivisionError"
        /\ calc_temporal_component(step_lengths).error # "ZeroDivisionError"
        /\ calc_wavelet_component(coefficients, n_size).error
              # "ZeroDivisionError"
        /\ pc # "crashed"

(* C6: a step of the segmenter leaves every sealed cycle as it was, the    *)
(* completed collections only grow at the end, and on a boundary the       *)
(* triggering stride distance is the only entry of the new in-progress     *)
(* buffer while the sealed cycle holds the old buffer.                     *)
C6_Step ==
    /\ Len(gait_sizes') >= Len(gait_sizes)
    /\ Len(n_size') >= Len(n_size)
    /\ Len(step_lengths') >= Len(step_lengths)
    /\ Len(coefficients') >= Len(coefficients)
    /\ \A i \in Cycles :
          /\ n_size'[i] = n_size[i]
          /\ Len(gait_sizes'[i]) = Len(gait_sizes[i])
          /\ Len(coefficients'[i]) = Len(coefficients[i])
          /\ step_lengths'[i] = step_lengths[i]
          /\ gait_sizes'[i] = gait_sizes[i]
          /\ coefficients'[i] = coefficients[i]
    /\ step_count' = step_count + 1 =>
          /\ gap_legs' = <<stride_dist'>>
          /\ Last(step_lengths') = gap_legs

\* C6: every step leaves the sealed cycles frozen
C6_SealedCyclesFrozen == [][C6_Step]_vars

C6_TwoSealed == step_count = 2 /\ Len(gap_legs) = 1

(* C7: with step_count >= 1 and one box per frame, the first output is     *)
(* (2/step_count) * sum over the cycles of (sum of the box heights of the  *)
(* cycle / its frame count), and the second the same over the widths.      *)
\* a frame's box is [w, h, x, y]: the width is item 1, the height item 2
C7_Mean(item) ==
    FDivInt(FMul(FracSum([i \in Cycles |->
        Frac(SeqSum([k \in 1..Len(gait_sizes[i]) |-> gait_sizes[i][k].val[item]]),
             n_size[i])]), FInt(2)), step_count)

C7_OneBoxPerFrame ==
    /\ step_count >= 1
    /\ \A i \in Cycles : \A k \in 1..Len(gait_sizes[i]) :
          gait_sizes[i][k].kind = "ints" /\ gait_sizes[i][k].val[1] >= 1

\* C7: the first output is the mean over the heights, the second over the
\* widths
C7_HeightThenWidth ==
    (pc \in {"temporal", "wavelet", "done"} /\ C7_OneBoxPerFrame) =>
        /\ spatial.value.mean_height = C7_Mean(2)
        /\ spatial.value.mean_width = C7_Mean(1)

(* C8: for every sealed cycle and band whose per-frame sums are all the    *)
(* same value c, calc_wavelet_component gives mean c and standard          *)
(* deviation 0.                                                            *)
C8_ConstantBand ==
    pc = "done" =>
        \A i \in Cycles : \A band \in 1..3 :
            LET c == MatSum(coefficients[i][1][band])
            IN  (\A k \in 1..Len(coefficients[i]) :
                    MatSum(coefficients[i][k][band]) = c) =>
                /\ wavelet_component.value[i][band].mean = FInt(c)
                /\ wavelet_component.value[i][band].stand_sq = FInt(0)

(* C9: calc_stride_dist returns the distance between the two box centres   *)
(* (top-left plus half the size) when the masked image has exactly two     *)
(* boxes, and 1 for every other number of boxes.                           *)
C9_StrideOrSentinel ==
    pc = "strided" =>
        LET f == reading.feet
        IN  IF Len(f) = 2
            THEN /\ stride_dist >= 0
                 /\ 4 * stride_dist * stride_dist =
                      ((2 * f[2].x + f[2].w) - (2 * f[1].x + f[1].w)) *
                      ((2 * f[2].x + f[2].w) - (2 * f[1].x + f[1].w)) +
                      ((2 * f[2].y + f[2].h) - (2 * f[1].y + f[1].h)) *
                      ((2 * f[2].y + f[2].h) - (2 * f[1].y + f[1].h))
            ELSE stride_dist = 1

C9_TwoFeetMeasured ==
    pc = "strided" /\ Len(reading.feet) = 2 /\ stride_dist = 50

(* C10: frame_count is the number of frames read so far, n_size is         *)
(* strictly increasing, step_count is the length of each of the four       *)
(* collections, and a boundary records the 1-based index of the frame      *)
(* that triggered it.                                                      *)
C10_State ==
    /\ frame_count = cap_pos
    /\ \A i \in Cycles : i > 1 => n_size[i - 1] < n_size[i]
    /\ step_count = Len(gait_sizes)
    /\ step_count = Len(n_size)
    /\ step_count = Len(step_lengths)
    /\ step_count = Len(coefficients)

C10_Seal == step_count' # step_count => n_size' = Append(n_size, cap_pos')

=============================================================================
